---- MODULE Spec2Model ----
(***************************************************************************)
(* Terraform provider for Bitwarden Secrets Manager.                       *)
(*                                                                         *)
(* The provider is glue between the plugin framework's callbacks and the   *)
(* Bitwarden SDK client.  Every callback runs synchronously to completion, *)
(* so each callback is one action.  What a callback did (the diagnostics   *)
(* it reported, the client calls it issued, what it wrote to state) is     *)
(* kept in the variable last, the response of the most recent callback.    *)
(***************************************************************************)
EXTENDS Naturals, Sequences, FiniteSets, TLC

VARIABLES
    phase,          \* provider process: "new", "configured", "failed", "crashed"
    providerData,   \* response.DataSourceData / response.ResourceData of provider Configure
    last,           \* the most recent callback: its request, response and client calls
    unit,           \* the managed block a run follows: "project" or "secret"
    projects,       \* remote store: project id -> record
    secrets,        \* remote store: secret id -> record
    nextId,         \* how many ids the server has assigned, plus one
    projectState,   \* Terraform state of the project resource (Null: none)
    secretState,    \* Terraform state of the secret resource (Null: none)
    stateBackup,    \* the state Terraform held before the last destroy (Null: none)
    created,        \* what the last successful Create asked the server to create
    deleted,        \* ids tracked by the states that successful Deletes consumed
    ops,            \* how many resource and data-source callbacks have run
    heldClient      \* the client field of the block's resource or data source

resVars ==
    <<unit, projects, secrets, nextId, projectState, secretState, stateBackup, created, deleted,
      ops, heldClient>>

vars == <<phase, providerData, last, resVars>>

(***************************************************************************)
(* types.String of the plugin framework: null, unknown or a known value.   *)
(***************************************************************************)
StringNull == [state |-> "null", value |-> ""]

StringUnknown == [state |-> "unknown", value |-> ""]

StringValue(v) == [state |-> "known", value |-> v]

IsNull(s) == s.state = "null"

IsUnknown(s) == s.state = "unknown"

\* ValueString returns "" for a null or unknown string.
ValueString(s) == IF s.state = "known" THEN s.value ELSE ""

(***************************************************************************)
(* Diagnostics.  A detail built as text + err.Error() is kept as the       *)
(* sequence of its parts, so that the carried error stays visible.         *)
(***************************************************************************)
Diag(summary, detail) == [severity |-> "error", summary |-> summary, detail |-> detail]

HasError(diags) == \E i \in 1..Len(diags) : diags[i].severity = "error"

Summaries(diags) == {diags[i].summary : i \in 1..Len(diags)}

NoClient == [nil |-> TRUE]

NoCall == <<>>

\* No Terraform state (the resource does not exist for Terraform).
Null == [null |-> TRUE]

(***************************************************************************)
(* Provider configuration (provider.go).                                   *)
(***************************************************************************)
ApiUrlValues ==
    {"", "https://api.bitwarden.com", "https://api.bitwarden.eu", "https://vault.example.com"}

IdentityUrlValues ==
    {"", "https://identity.bitwarden.com", "https://identity.bitwarden.eu",
     "https://vault.example.com"}

TokenValues == {"", "tok123"}

\* A provider attribute as decoded into bitwardenProviderModel.
ConfigAttr(S) == {StringNull, StringUnknown} \cup {StringValue(v) : v \in S}

Configs ==
    [ApiUrl : ConfigAttr(ApiUrlValues),
     IdentityUrl : ConfigAttr(IdentityUrlValues),
     AccessToken : ConfigAttr(TokenValues)]

\* The process environment; os.Getenv yields "" for a variable that is not set.
Environments ==
    [BW_API_URL : {"", "https://env.example.com"},
     BW_IDENTITY_URL : {"", "https://env.example.com"},
     BW_ACCESS_TOKEN : {"", "envtok"}]

\* Outcomes of bitwarden.NewBitwardenClient: a client, or an error together with
\* either a nil interface or a non-nil value (Go lets a failing constructor
\* return either).
NewClientOutcomes == {"ok", "err_nil", "err_handle"}

LoginOutcomes == {"ok", "err"}

ErrNewClient == "sdk: client settings rejected"

ErrLogin == "sdk: access token rejected"

Call(fn, args, err) == [fn |-> fn, args |-> args, err |-> err]

\* request.Config.Get: a decoding failure comes back as an error diagnostic.
DecodeDiags(decodeErr) ==
    IF decodeErr THEN <<Diag("Value Conversion Error", <<"decode">>)>> ELSE <<>>

UnknownDiags(config) ==
    (IF IsUnknown(config.ApiUrl)
        THEN <<Diag("Unknown Bitwarden API url", <<"api_url">>)>> ELSE <<>>)
    \o (IF IsUnknown(config.IdentityUrl)
        THEN <<Diag("Unknown Bitwarden Identity url", <<"Identity_url">>)>> ELSE <<>>)
    \o (IF IsUnknown(config.AccessToken)
        THEN <<Diag("Unknown Bitwarden access token", <<"access_token">>)>> ELSE <<>>)

ResolveApiUrl(config, env) ==
    LET apiUrl == env.BW_API_URL
    IN  IF ~IsNull(config.ApiUrl)
            THEN ValueString(config.ApiUrl)
            ELSE "https://api.bitwarden.com"

ResolveIdentityUrl(config, env) ==
    LET identityUrl == env.BW_IDENTITY_URL
    IN  IF ~IsNull(config.IdentityUrl)
            THEN ValueString(config.IdentityUrl)
            ELSE "https://identity.bitwarden.com/connect/token"

ResolveAccessToken_EnvWins(config, env) ==
    IF env.BW_ACCESS_TOKEN # ""
        THEN env.BW_ACCESS_TOKEN
        ELSE ValueString(config.AccessToken)

ResolveAccessToken(config, env) ==
    LET accessToken == env.BW_ACCESS_TOKEN
    IN  IF ~IsNull(config.AccessToken)
            THEN ValueString(config.AccessToken)
            ELSE accessToken

MissingTokenDiags(accessToken) ==
    IF accessToken = ""
        THEN <<Diag("Missing Bitwarden access token", <<"access_token">>)>>
        ELSE <<>>

\* The early returns on response.Diagnostics.HasError() that follow the two
\* validation steps (unknown attributes, empty access token).
HaltsOnConfigError_Never(diags) == FALSE

HaltsOnConfigError(diags) == HasError(diags)

NormalizeApiUrl_SelfHostedOnly(apiUrl) ==
    IF apiUrl # "https://api.bitwarden.com" /\ apiUrl # "https://api.bitwarden.eu"
        THEN apiUrl \o "/api"
        ELSE apiUrl

NormalizeApiUrl(apiUrl) ==
    IF apiUrl # "https://api.bitwarden.com" \/ apiUrl # "https://api.bitwarden.eu"
        THEN apiUrl \o "/api"
        ELSE apiUrl

NormalizeIdentityUrl(identityUrl) ==
    IF identityUrl = "https://identity.bitwarden.com"
       \/ identityUrl = "https://identity.bitwarden.eu"
        THEN identityUrl \o "/connect/token"
        ELSE identityUrl \o "/identity/connect/token"

\* The value bitwarden.NewBitwardenClient hands back.
NewBitwardenClient(apiUrl, identityUrl, outcome) ==
    IF outcome = "err_nil"
        THEN NoClient
        ELSE [nil |-> FALSE, apiUrl |-> apiUrl, identityUrl |-> identityUrl,
              constructed |-> (outcome = "ok"), loggedIn |-> FALSE, token |-> ""]

\* AccessTokenLogin on a constructed client; a failed login leaves it unauthenticated.
AccessTokenLogin(client, accessToken, outcome) ==
    IF outcome = "ok" /\ client.constructed
        THEN [client EXCEPT !.loggedIn = TRUE, !.token = accessToken]
        ELSE client

LoginErr(client, outcome) ==
    IF outcome = "ok" /\ client.constructed THEN "" ELSE ErrLogin

\* The whole of Configure, as the response it leaves behind.
ConfigureRun(config, env, decodeErr, newOutcome, loginOutcome) ==
    LET base == [op |-> "ProviderConfigure", config |-> config, env |-> env,
                 decodeErr |-> decodeErr, diags |-> <<>>, calls |-> NoCall,
                 panicked |-> FALSE, resolved |-> FALSE, published |-> NoClient,
                 apiUrl |-> "", identityUrl |-> "", accessToken |-> ""]
        d0 == DecodeDiags(decodeErr)
        d1 == d0 \o UnknownDiags(config)
        apiUrl == ResolveApiUrl(config, env)
        identityUrl == ResolveIdentityUrl(config, env)
        accessToken == ResolveAccessToken(config, env)
        d2 == d1 \o MissingTokenDiags(accessToken)
        res == [base EXCEPT !.resolved = TRUE, !.apiUrl = apiUrl,
                            !.identityUrl = identityUrl, !.accessToken = accessToken]
        napi == NormalizeApiUrl(apiUrl)
        nid == NormalizeIdentityUrl(identityUrl)
        client == NewBitwardenClient(napi, nid, newOutcome)
        newErr == IF newOutcome = "ok" THEN "" ELSE ErrNewClient
        d3 == IF newErr # ""
                THEN d2 \o <<Diag("Error while creating the bitwarden client",
                                  <<"validate the api and identity url are correct: ", newErr>>)>>
                ELSE d2
        c1 == <<Call("NewBitwardenClient", <<napi, nid>>, newErr)>>
        logErr == LoginErr(client, loginOutcome)
        c2 == c1 \o <<Call("AccessTokenLogin", <<accessToken>>, logErr)>>
        logged == AccessTokenLogin(client, accessToken, loginOutcome)
        d4 == IF logErr # ""
                THEN d3 \o <<Diag("Unable to login to Bitwarden Secrets Manager",
                                  <<"Either the access token is not valid or there is some communication issues: ", logErr>>)>>
                ELSE d3
    IN  IF HasError(d0) THEN [base EXCEPT !.diags = d0]
        ELSE IF HaltsOnConfigError(d1) THEN [base EXCEPT !.diags = d1]
        ELSE IF HaltsOnConfigError(d2) THEN [res EXCEPT !.diags = d2]
        ELSE IF client = NoClient
            \* the method call on a nil interface panics
            THEN [res EXCEPT !.diags = d3, !.panicked = TRUE,
                             !.calls = c1 \o <<Call("AccessTokenLogin", <<accessToken>>, "panic")>>]
        ELSE [res EXCEPT !.diags = d4, !.calls = c2, !.published = logged]

ProviderConfigure ==
    /\ phase = "new"
    /\ \E config \in Configs, env \in Environments, decodeErr \in BOOLEAN,
          newOutcome \in NewClientOutcomes, loginOutcome \in LoginOutcomes :
        LET r == ConfigureRun(config, env, decodeErr, newOutcome, loginOutcome)
        IN  /\ last' = r
            /\ providerData' = r.published
            /\ phase' = IF r.panicked THEN "crashed"
                        ELSE IF HasError(r.diags) THEN "failed" ELSE "configured"

\* Bounds: items in one list, ids the server assigns, callbacks in one run.
MaxLen == 2

MaxIds == 2

MaxOps == 3

ProjectIdOf(n) == "p" \o ToString(n)

SecretIdOf(n) == "s" \o ToString(n)

\* *string: <<>> is the nil pointer, <<v>> points to v.
Nil == <<>>

\* The records a data-source block finds on the server: every other secret is
\* filed under no project.
SeededProjects ==
    [id \in {ProjectIdOf(n) : n \in 1..MaxIds} |->
        [name |-> "name-" \o id, organizationID |-> "org1",
         creationDate |-> "t0", revisionDate |-> "t0"]]

SeededSecrets ==
    [id \in {SecretIdOf(n) : n \in 1..MaxIds} |->
        [key |-> "key-" \o id, value |-> "value-" \o id, note |-> "note-" \o id,
         organizationID |-> "org1",
         projectID |-> IF id \in {SecretIdOf(n) : n \in {1, 3}} THEN <<"pA">> ELSE Nil]]

\* A managed-resource block starts with no remote record; a data-source block
\* reads records the server already holds.  No Terraform state yet.
InitRemote ==
    /\ unit \in {"project", "secret", "projects_data", "secrets_data"}
    /\ projects = IF unit = "projects_data" THEN SeededProjects ELSE <<>>
    /\ secrets = IF unit = "secrets_data" THEN SeededSecrets ELSE <<>>
    /\ nextId = IF unit \in {"projects_data", "secrets_data"} THEN MaxIds + 1 ELSE 1
    /\ projectState = Null
    /\ secretState = Null
    /\ stateBackup = Null
    /\ created = <<>>
    /\ deleted = {}
    /\ ops = 0
    /\ heldClient = NoClient

InitProvider ==
    /\ phase = "new"
    /\ providerData = NoClient
    /\ last = [op |-> "none"]
    /\ InitRemote

NextConfigure == ProviderConfigure /\ UNCHANGED resVars

SpecConfigure == InitProvider /\ [][NextConfigure]_vars

(***************************************************************************)
(* The remote store behind client.Projects() and client.Secrets().  A call *)
(* either fails, changing nothing, or acts on the record it names.  Ids    *)
(* are assigned by the server and never reused.  A run follows one managed *)
(* block (unit): the blocks share nothing but the client handle.           *)
(***************************************************************************)
Tick == ops < MaxOps /\ ops' = ops + 1

ErrFault == "sdk: request failed"

ErrNotFound == "sdk: resource not found"

NoResponse == [nil |-> TRUE]

\* One client call: the remote state it leaves, the response, the call made.
Outcome(remote, resp, call) == [remote |-> remote, resp |-> resp, call |-> call]

LookupErr(remote, id, fail) ==
    IF fail THEN ErrFault
    ELSE IF id \notin DOMAIN remote.store THEN ErrNotFound
    ELSE ""

ProjectResponse(id, rec) ==
    [ID |-> id, Name |-> rec.name, OrganizationID |-> rec.organizationID,
     CreationDate |-> rec.creationDate, RevisionDate |-> rec.revisionDate]

ProjectsCreate(remote, name, organizationID, fail) ==
    IF fail
        THEN Outcome(remote, NoResponse,
                     Call("Projects.Create", <<name, organizationID>>, ErrFault))
        ELSE Outcome([store |-> (ProjectIdOf(remote.nextId) :>
                                    [name |-> name, organizationID |-> organizationID,
                                     creationDate |-> "t0", revisionDate |-> "t0"])
                                @@ remote.store,
                      nextId |-> remote.nextId + 1],
                     [ID |-> ProjectIdOf(remote.nextId), Name |-> name,
                      OrganizationID |-> organizationID,
                      CreationDate |-> "t0", RevisionDate |-> "t0"],
                     Call("Projects.Create", <<name, organizationID>>, ""))

ProjectsGet(remote, id, fail) ==
    IF LookupErr(remote, id, fail) # ""
        THEN Outcome(remote, NoResponse, Call("Projects.Get", <<id>>, LookupErr(remote, id, fail)))
        ELSE Outcome(remote, ProjectResponse(id, remote.store[id]), Call("Projects.Get", <<id>>, ""))

\* The server renames the project; its organization stays what it was.
ProjectsUpdate(remote, id, organizationID, name, fail) ==
    IF LookupErr(remote, id, fail) # ""
        THEN Outcome(remote, NoResponse,
                     Call("Projects.Update", <<id, organizationID, name>>,
                          LookupErr(remote, id, fail)))
        ELSE Outcome([remote EXCEPT !.store[id].name = name],
                     ProjectResponse(id, [remote.store[id] EXCEPT !.name = name]),
                     Call("Projects.Update", <<id, organizationID, name>>, ""))

SecretResponse(id, rec) ==
    [ID |-> id, Key |-> rec.key, Value |-> rec.value, Note |-> rec.note,
     OrganizationID |-> rec.organizationID, ProjectID |-> rec.projectID]

\* The project a secret is filed under: none when the id given is empty.
ProjectRef(projectIDs) == IF projectIDs = <<"">> THEN Nil ELSE <<projectIDs[1]>>

SecretRecord(key, value, note, organizationID, projectIDs) ==
    [key |-> key, value |-> value, note |-> note, organizationID |-> organizationID,
     projectID |-> ProjectRef(projectIDs)]

SecretsCreate(remote, key, value, note, organizationID, projectIDs, fail) ==
    IF fail
        THEN Outcome(remote, NoResponse,
                     Call("Secrets.Create", <<key, value, note, organizationID>> \o projectIDs,
                          ErrFault))
        ELSE Outcome([store |-> (SecretIdOf(remote.nextId) :>
                                    SecretRecord(key, value, note, organizationID, projectIDs))
                                @@ remote.store,
                      nextId |-> remote.nextId + 1],
                     SecretResponse(SecretIdOf(remote.nextId),
                                    SecretRecord(key, value, note, organizationID, projectIDs)),
                     Call("Secrets.Create", <<key, value, note, organizationID>> \o projectIDs, ""))

SecretsGet(remote, id, fail) ==
    IF LookupErr(remote, id, fail) # ""
        THEN Outcome(remote, NoResponse, Call("Secrets.Get", <<id>>, LookupErr(remote, id, fail)))
        ELSE Outcome(remote, SecretResponse(id, remote.store[id]), Call("Secrets.Get", <<id>>, ""))

\* The server replaces key, value, note and project; the organization stays.
SecretsUpdate(remote, id, key, value, note, organizationID, projectIDs, fail) ==
    IF LookupErr(remote, id, fail) # ""
        THEN Outcome(remote, NoResponse,
                     Call("Secrets.Update", <<id, key, value, note, organizationID>> \o projectIDs,
                          LookupErr(remote, id, fail)))
        ELSE Outcome([remote EXCEPT !.store[id] =
                         SecretRecord(key, value, note, remote.store[id].organizationID, projectIDs)],
                     SecretResponse(id, SecretRecord(key, value, note,
                                                     remote.store[id].organizationID, projectIDs)),
                     Call("Secrets.Update", <<id, key, value, note, organizationID>> \o projectIDs,
                          ""))

Range(seq) == {seq[i] : i \in 1..Len(seq)}

Restrict(f, S) == [x \in S |-> f[x]]

\* Batch delete: one request for the whole list of ids.
BatchDelete(remote, fn, ids, fail) ==
    IF fail
        THEN Outcome(remote, NoResponse, Call(fn, ids, ErrFault))
        ELSE Outcome([remote EXCEPT !.store = Restrict(remote.store,
                                                         DOMAIN remote.store \ Range(ids))],
                     NoResponse, Call(fn, ids, ""))

(***************************************************************************)
(* The loop of a callback: one client call per item, in list order, the    *)
(* first error ending the callback.  failAt is the position whose call the *)
(* server fails (0: none).                                                  *)
(***************************************************************************)
ProjectCreateStep(remote, project, fail) ==
    ProjectsCreate(remote, ValueString(project.Name), ValueString(project.OrganizationId), fail)

ProjectGetStep(remote, project, fail) ==
    ProjectsGet(remote, ValueString(project.ProjectId), fail)

ProjectUpdateStep(remote, project, fail) ==
    ProjectsUpdate(remote, ValueString(project.ProjectId), ValueString(project.OrganizationId),
                   ValueString(project.Name), fail)

SecretCreateStep(remote, secret, fail) ==
    SecretsCreate(remote, ValueString(secret.Key), ValueString(secret.Value),
                  ValueString(secret.Note), ValueString(secret.OrganizationId),
                  <<ValueString(secret.ProjectId)>>, fail)

SecretGetStep(remote, secret, fail) ==
    SecretsGet(remote, ValueString(secret.SecretId), fail)

SecretUpdateStep(remote, secret, fail) ==
    SecretsUpdate(remote, ValueString(secret.SecretId), ValueString(secret.Key),
                  ValueString(secret.Value), ValueString(secret.Note),
                  ValueString(secret.OrganizationId), <<ValueString(secret.ProjectId)>>, fail)

ProjectLookupStep(remote, projectInfo, fail) ==
    ProjectsGet(remote, ValueString(projectInfo.Id), fail)

SecretLookupStep(remote, secretInfo, fail) ==
    SecretsGet(remote, ValueString(secretInfo.Id), fail)

\* The client call of a loop body.
Step(body, remote, item, fail) ==
    CASE body = "ProjectCreate" -> ProjectCreateStep(remote, item, fail)
      [] body = "ProjectRead" -> ProjectGetStep(remote, item, fail)
      [] body = "ProjectUpdate" -> ProjectUpdateStep(remote, item, fail)
      [] body = "SecretCreate" -> SecretCreateStep(remote, item, fail)
      [] body = "SecretRead" -> SecretGetStep(remote, item, fail)
      [] body = "SecretUpdate" -> SecretUpdateStep(remote, item, fail)
      [] body = "ProjectDataRead" -> ProjectLookupStep(remote, item, fail)
      [] body = "SecretDataRead" -> SecretLookupStep(remote, item, fail)

\* if err != nil { AddError; return }; responses = append(responses, response)
\* The secret data source dereferences the response's ProjectID inside the loop.
Collect(body, acc, o) ==
    [remote |-> o.remote,
     resps |-> IF o.call.err = "" THEN Append(acc.resps, o.resp) ELSE acc.resps,
     calls |-> Append(acc.calls, o.call),
     err |-> o.call.err,
     panicked |-> body = "SecretDataRead" /\ o.call.err = "" /\ o.resp.ProjectID = Nil]

RECURSIVE Iterate(_, _, _, _, _)
Iterate(body, items, failAt, i, acc) ==
    IF i > Len(items) \/ acc.err # "" \/ acc.panicked
        THEN acc
        ELSE Iterate(body, items, failAt, i + 1,
                     Collect(body, acc, Step(body, acc.remote, items[i], failAt = i)))

ForEach(body, items, failAt, remote0) ==
    Iterate(body, items, failAt, 1,
            [remote |-> remote0, resps |-> <<>>, calls |-> NoCall, err |-> "", panicked |-> FALSE])

\* for index, item := range responses { data.Items[index] = Item(item) }
WriteBack(items, models) ==
    [i \in 1..Len(items) |-> IF i <= Len(models) THEN models[i] ELSE items[i]]

\* uuid.GenerateUUID: a fresh id, or "" with an error.
ResourceUUID == "11111111-2222-3333-4444-555555555555"

GenerateUUID_NeverBlank(uuidErr) == ResourceUUID

GenerateUUID(uuidErr) == IF uuidErr THEN "" ELSE ResourceUUID

UUIDDiags(uuidErr) ==
    IF uuidErr THEN <<Diag("Unable to generate resource id", <<"resource_ID">>)>> ELSE <<>>

ClientErrorDiag(summary, text, err) == Diag(summary, <<text, err>>)

\* What a callback leaves behind: its diagnostics, the client calls it made,
\* whether it called response.State.Set and with what; for a data source also
\* the ids its configuration asked for.  arose names the errors met outside
\* the client calls: "decode" (Get of config, plan or state), "uuid".
Response(op, diags, calls, wrote, state) ==
    [op |-> op, diags |-> diags, calls |-> calls,
     wrote |-> wrote, state |-> state, panicked |-> FALSE, input |-> <<>>, arose |-> {}]

\* The response of a callback in which decoding and id generation went as given.
Arisen(resp, decodeErr, uuidErr) ==
    [resp EXCEPT !.arose = {e \in {"decode"} : decodeErr} \cup {e \in {"uuid"} : uuidErr}]

\* A callback stopped by its decoding of the request.
Undecoded(op, remote) ==
    [resp |-> Response(op, DecodeDiags(TRUE), NoCall, FALSE, Null), remote |-> remote]

Aborted_SavesAnyway(op, diags, summary, text, loop) ==
    [resp |-> Response(op, diags \o <<ClientErrorDiag(summary, text, loop.err)>>,
                       loop.calls, TRUE, Null),
     remote |-> loop.remote]

\* A callback stopped by the first failing client call.
Aborted(op, diags, summary, text, loop) ==
    [resp |-> Response(op, diags \o <<ClientErrorDiag(summary, text, loop.err)>>,
                       loop.calls, FALSE, Null),
     remote |-> loop.remote]

\* A callback ended by a runtime panic: no response reaches Terraform.
Panicked(op, loop) ==
    [resp |-> [Response(op, <<>>, loop.calls, FALSE, Null) EXCEPT !.panicked = TRUE],
     remote |-> loop.remote]

\* A callback that got to response.State.Set.
Completed(op, diags, loop, state) ==
    [resp |-> Response(op, diags, loop.calls, TRUE, state), remote |-> loop.remote]

SeqsUpTo(S, n) == UNION {[1..k -> S] : k \in 0..n}

TrackedIds(ids) == {ids[i] : i \in 1..Len(ids)} \ {""}

(***************************************************************************)
(* Project resource (resource_bitwarden_project.go).                       *)
(***************************************************************************)
Names == {"alpha", "beta"}

Organization == "org1"

ProjectItem(resp) ==
    [Name |-> StringValue(resp.Name),
     OrganizationId |-> StringValue(resp.OrganizationID),
     ProjectId |-> StringValue(resp.ID)]

ProjectItems(resps) == [i \in 1..Len(resps) |-> ProjectItem(resps[i])]

\* An item of a plan: the name from the configuration, the computed project id
\* what the plan has for it.
PlannedProject(name, projectId) ==
    [Name |-> StringValue(name), OrganizationId |-> StringValue(Organization),
     ProjectId |-> projectId]

ProjectCreatePlans ==
    {[Id |-> StringUnknown,
      Projects |-> [i \in 1..Len(names) |-> PlannedProject(names[i], StringUnknown)]] :
        names \in SeqsUpTo(Names, MaxLen)}

ProjectRemote == [store |-> projects, nextId |-> nextId]

ProjectIds(state) == [i \in 1..Len(state.Projects) |-> ValueString(state.Projects[i].ProjectId)]

ProjectCreateResult(diags, data, loop) ==
    IF loop.err # ""
        THEN Aborted("ProjectCreate", diags, "Error creating project",
                     "Could not create project, unexpected error: ", loop)
        ELSE Completed("ProjectCreate", diags, loop,
                       [data EXCEPT !.Projects = WriteBack(data.Projects, ProjectItems(loop.resps))])

ProjectCreateRun(plan, decodeErr, uuidErr, failAt, remote) ==
    IF HasError(DecodeDiags(decodeErr))
        THEN Undecoded("ProjectCreate", remote)
        ELSE ProjectCreateResult(UUIDDiags(uuidErr),
                                 [plan EXCEPT !.Id = StringValue(GenerateUUID(uuidErr))],
                                 ForEach("ProjectCreate", plan.Projects, failAt, remote))

CreateArgs(calls) == [i \in 1..Len(calls) |-> calls[i].args]

ProjectCreate ==
    /\ Tick
    /\ heldClient # NoClient
    /\ unit = "project"
    /\ phase = "configured"
    /\ projectState = Null
    /\ \E plan \in ProjectCreatePlans, decodeErr \in BOOLEAN, uuidErr \in BOOLEAN,
          failAt \in 0..MaxLen :
        /\ failAt <= Len(plan.Projects)
        /\ decodeErr => (plan.Projects = <<>> /\ ~uuidErr)
        /\ (nextId - 1) + Len(plan.Projects) <= MaxIds
        /\ \E r \in {ProjectCreateRun(plan, decodeErr, uuidErr, failAt, ProjectRemote)} :
            /\ last' = Arisen(r.resp, decodeErr, uuidErr)
            /\ projects' = r.remote.store
            /\ nextId' = r.remote.nextId
            /\ projectState' = IF r.resp.wrote THEN r.resp.state ELSE projectState
            /\ created' = IF r.resp.wrote THEN CreateArgs(r.resp.calls) ELSE <<>>
    /\ UNCHANGED <<phase, providerData, heldClient, unit, secrets, secretState, stateBackup, deleted>>

ProjectReadResult(state, loop) ==
    IF loop.err # ""
        THEN Aborted("ProjectRead", <<>>, "Error creating project",
                     "Could not find project, unexpected error: ", loop)
        ELSE Completed("ProjectRead", <<>>, loop,
                       [state EXCEPT !.Projects = WriteBack(state.Projects, ProjectItems(loop.resps))])

ProjectReadRun(state, decodeErr, failAt, remote) ==
    IF HasError(DecodeDiags(decodeErr))
        THEN Undecoded("ProjectRead", remote)
        ELSE ProjectReadResult(state, ForEach("ProjectRead", state.Projects, failAt, remote))

\* Read is given the state Terraform holds, or after a destroy the state it
\* held before (a stale state file).
ProjectRead ==
    /\ Tick
    /\ heldClient # NoClient
    /\ unit = "project"
    /\ phase = "configured"
    /\ \E state \in {IF projectState # Null THEN projectState ELSE stateBackup} \ {Null},
          decodeErr \in BOOLEAN, failAt \in 0..MaxLen :
        /\ failAt <= Len(state.Projects)
        /\ decodeErr => failAt = 0
        /\ \E r \in {ProjectReadRun(state, decodeErr, failAt, ProjectRemote)} :
            /\ last' = Arisen(r.resp, decodeErr, FALSE)
            /\ projectState' = IF r.resp.wrote THEN r.resp.state ELSE projectState
    /\ UNCHANGED <<phase, providerData, heldClient, unit, projects, secrets, nextId, secretState,
                   stateBackup, created, deleted>>

\* The model saved by Update: the plan with its items replaced by the responses.
ProjectUpdateData_FreshId(plan, resps) ==
    [Id |-> StringValue(""), Projects |-> WriteBack(plan.Projects, ProjectItems(resps))]

ProjectUpdateData(plan, resps) ==
    [plan EXCEPT !.Projects = WriteBack(plan.Projects, ProjectItems(resps))]

ProjectUpdateResult(plan, loop) ==
    IF loop.err # ""
        THEN Aborted("ProjectUpdate", <<>>, "Error creating project",
                     "Could not update project, unexpected error: ", loop)
        ELSE Completed("ProjectUpdate", <<>>, loop, ProjectUpdateData(plan, loop.resps))

ProjectUpdateRun(plan, decodeErr, failAt, remote) ==
    IF HasError(DecodeDiags(decodeErr))
        THEN Undecoded("ProjectUpdate", remote)
        ELSE ProjectUpdateResult(plan, ForEach("ProjectUpdate", plan.Projects, failAt, remote))

\* An update plan: the tracking id is carried over from the state (the
\* UseStateForUnknown plan modifier of "id"); an item carries the project id the
\* state has at its position, and an unknown one where the state has none.
ProjectUpdatePlans(state) ==
    {[Id |-> state.Id,
      Projects |-> [i \in 1..Len(names) |->
                        PlannedProject(names[i],
                                       IF i <= Len(state.Projects)
                                           THEN state.Projects[i].ProjectId
                                           ELSE StringUnknown)]] :
        names \in SeqsUpTo(Names, MaxLen)}

ProjectUpdate ==
    /\ Tick
    /\ heldClient # NoClient
    /\ unit = "project"
    /\ phase = "configured"
    /\ projectState # Null
    /\ \E plan \in ProjectUpdatePlans(projectState), decodeErr \in BOOLEAN, failAt \in 0..MaxLen :
        /\ failAt <= Len(plan.Projects)
        /\ decodeErr => plan.Projects = <<>>
        /\ \E r \in {ProjectUpdateRun(plan, decodeErr, failAt, ProjectRemote)} :
            /\ last' = Arisen(r.resp, decodeErr, FALSE)
            /\ projects' = r.remote.store
            /\ projectState' = IF r.resp.wrote THEN r.resp.state ELSE projectState
    /\ created' = <<>>
    /\ UNCHANGED <<phase, providerData, heldClient, unit, secrets, nextId, secretState,
                   stateBackup, deleted>>

ProjectsToDelete_DropLast(state) ==
    [i \in 1..(IF Len(state.Projects) = 0 THEN 0 ELSE Len(state.Projects) - 1) |->
        ValueString(state.Projects[i].ProjectId)]

ProjectsToDelete(state) ==
    [i \in 1..Len(state.Projects) |-> ValueString(state.Projects[i].ProjectId)]

ProjectDeleteResult(o) ==
    IF o.call.err # ""
        THEN [resp |-> Response("ProjectDelete",
                                <<ClientErrorDiag("Error creating project",
                                      "Could not delete project, unexpected error: ", o.call.err)>>,
                                <<o.call>>, FALSE, Null),
              remote |-> o.remote]
        ELSE [resp |-> Response("ProjectDelete", <<>>, <<o.call>>, FALSE, Null),
              remote |-> o.remote]

ProjectDeleteRun(state, decodeErr, fail, remote) ==
    IF HasError(DecodeDiags(decodeErr))
        THEN Undecoded("ProjectDelete", remote)
        ELSE ProjectDeleteResult(BatchDelete(remote, "Projects.Delete",
                                             ProjectsToDelete(state), fail))

\* Terraform drops the resource's state when Delete reports no error; the
\* state it had stays behind as the backup.
ProjectDelete ==
    /\ Tick
    /\ heldClient # NoClient
    /\ unit = "project"
    /\ phase = "configured"
    /\ projectState # Null
    /\ \E decodeErr \in BOOLEAN, fail \in BOOLEAN :
        /\ decodeErr => ~fail
        /\ \E r \in {ProjectDeleteRun(projectState, decodeErr, fail, ProjectRemote)} :
            /\ last' = Arisen(r.resp, decodeErr, FALSE)
            /\ projects' = r.remote.store
            /\ projectState' = IF HasError(r.resp.diags) THEN projectState ELSE Null
            /\ stateBackup' = IF HasError(r.resp.diags) THEN stateBackup ELSE projectState
            /\ deleted' = IF HasError(r.resp.diags)
                            THEN deleted
                            ELSE deleted \cup TrackedIds(ProjectIds(projectState))
    /\ created' = <<>>
    /\ UNCHANGED <<phase, providerData, heldClient, unit, secrets, nextId, secretState>>

(***************************************************************************)
(* Secret resource (src/unnamed/part_001).                                 *)
(***************************************************************************)
\* The secrets a configuration may declare: one filed under a project, one not.
SecretSamples ==
    {[Key |-> "k1", Value |-> "v1", Note |-> "n1", ProjectId |-> StringValue("pA")],
     [Key |-> "k2", Value |-> "v2", Note |-> "n2", ProjectId |-> StringNull]}

PlannedSecret(sample, secretId) ==
    [Key |-> StringValue(sample.Key), Value |-> StringValue(sample.Value),
     Note |-> StringValue(sample.Note), SecretId |-> secretId,
     ProjectId |-> sample.ProjectId, OrganizationId |-> StringValue(Organization)]

\* The item Create and Read save: ProjectId is left at its zero value.
SecretItem(resp) ==
    [Key |-> StringValue(resp.Key), Value |-> StringValue(resp.Value),
     Note |-> StringValue(resp.Note),
     OrganizationId |-> StringValue(resp.OrganizationID),
     SecretId |-> StringValue(resp.ID),
     ProjectId |-> StringNull]

SecretItems(resps) == [i \in 1..Len(resps) |-> SecretItem(resps[i])]

\* The item Update saves: ProjectId is *projectItem.ProjectID.
SecretUpdatedItem(resp) ==
    [SecretId |-> StringValue(resp.ID),
     Key |-> StringValue(resp.Key), Value |-> StringValue(resp.Value),
     Note |-> StringValue(resp.Note),
     OrganizationId |-> StringValue(resp.OrganizationID),
     ProjectId |-> StringValue(resp.ProjectID[1])]

SecretUpdatedItems(resps) == [i \in 1..Len(resps) |-> SecretUpdatedItem(resps[i])]

\* Dereferencing a nil ProjectID panics.
DerefPanics(resps) == \E i \in 1..Len(resps) : resps[i].ProjectID = Nil

SecretCreatePlans ==
    {[Id |-> StringUnknown,
      Secrets |-> [i \in 1..Len(samples) |-> PlannedSecret(samples[i], StringUnknown)]] :
        samples \in SeqsUpTo(SecretSamples, MaxLen)}

SecretRemote == [store |-> secrets, nextId |-> nextId]

SecretIds(state) == [i \in 1..Len(state.Secrets) |-> ValueString(state.Secrets[i].SecretId)]

SecretCreateResult(diags, data, loop) ==
    IF loop.err # ""
        THEN Aborted("SecretCreate", diags, "Error creating secret",
                     "Could not create secret, unexpected error: ", loop)
        ELSE Completed("SecretCreate", diags, loop,
                       [data EXCEPT !.Secrets = WriteBack(data.Secrets, SecretItems(loop.resps))])

SecretCreateRun(plan, decodeErr, uuidErr, failAt, remote) ==
    IF HasError(DecodeDiags(decodeErr))
        THEN Undecoded("SecretCreate", remote)
        ELSE SecretCreateResult(UUIDDiags(uuidErr),
                                [plan EXCEPT !.Id = StringValue(GenerateUUID(uuidErr))],
                                ForEach("SecretCreate", plan.Secrets, failAt, remote))

SecretCreate ==
    /\ Tick
    /\ heldClient # NoClient
    /\ unit = "secret"
    /\ phase = "configured"
    /\ secretState = Null
    /\ \E plan \in SecretCreatePlans, decodeErr \in BOOLEAN, uuidErr \in BOOLEAN,
          failAt \in 0..MaxLen :
        /\ failAt <= Len(plan.Secrets)
        /\ decodeErr => (plan.Secrets = <<>> /\ ~uuidErr)
        /\ (nextId - 1) + Len(plan.Secrets) <= MaxIds
        /\ \E r \in {SecretCreateRun(plan, decodeErr, uuidErr, failAt, SecretRemote)} :
            /\ last' = Arisen(r.resp, decodeErr, uuidErr)
            /\ secrets' = r.remote.store
            /\ nextId' = r.remote.nextId
            /\ secretState' = IF r.resp.wrote THEN r.resp.state ELSE secretState
            /\ created' = IF r.resp.wrote THEN CreateArgs(r.resp.calls) ELSE <<>>
    /\ UNCHANGED <<phase, providerData, heldClient, unit, projects, projectState, stateBackup, deleted>>

SecretReadResult(state, loop) ==
    IF loop.err # ""
        THEN Aborted("SecretRead", <<>>, "Error creating secret",
                     "Could not find secret, unexpected error: ", loop)
        ELSE Completed("SecretRead", <<>>, loop,
                       [state EXCEPT !.Secrets = WriteBack(state.Secrets, SecretItems(loop.resps))])

SecretReadRun(state, decodeErr, failAt, remote) ==
    IF HasError(DecodeDiags(decodeErr))
        THEN Undecoded("SecretRead", remote)
        ELSE SecretReadResult(state, ForEach("SecretRead", state.Secrets, failAt, remote))

SecretRead ==
    /\ Tick
    /\ heldClient # NoClient
    /\ unit = "secret"
    /\ phase = "configured"
    /\ \E state \in {IF secretState # Null THEN secretState ELSE stateBackup} \ {Null},
          decodeErr \in BOOLEAN, failAt \in 0..MaxLen :
        /\ failAt <= Len(state.Secrets)
        /\ decodeErr => failAt = 0
        /\ \E r \in {SecretReadRun(state, decodeErr, failAt, SecretRemote)} :
            /\ last' = Arisen(r.resp, decodeErr, FALSE)
            /\ secretState' = IF r.resp.wrote THEN r.resp.state ELSE secretState
    /\ UNCHANGED <<phase, providerData, heldClient, unit, projects, secrets, nextId, projectState,
                   stateBackup, created, deleted>>

SecretUpdateData(plan, resps) ==
    [plan EXCEPT !.Secrets = WriteBack(plan.Secrets, SecretUpdatedItems(resps))]

SecretUpdateResult(plan, loop) ==
    IF loop.err # ""
        THEN Aborted("SecretUpdate", <<>>, "Error creating secret",
                     "Could not update secret, unexpected error: ", loop)
    ELSE IF DerefPanics(loop.resps)
        THEN Panicked("SecretUpdate", loop)
    ELSE Completed("SecretUpdate", <<>>, loop, SecretUpdateData(plan, loop.resps))

SecretUpdateRun(plan, decodeErr, failAt, remote) ==
    IF HasError(DecodeDiags(decodeErr))
        THEN Undecoded("SecretUpdate", remote)
        ELSE SecretUpdateResult(plan, ForEach("SecretUpdate", plan.Secrets, failAt, remote))

SecretUpdatePlans(state) ==
    {[Id |-> state.Id,
      Secrets |-> [i \in 1..Len(samples) |->
                        PlannedSecret(samples[i],
                                      IF i <= Len(state.Secrets)
                                          THEN state.Secrets[i].SecretId
                                          ELSE StringUnknown)]] :
        samples \in SeqsUpTo(SecretSamples, MaxLen)}

SecretUpdate ==
    /\ Tick
    /\ heldClient # NoClient
    /\ unit = "secret"
    /\ phase = "configured"
    /\ secretState # Null
    /\ \E plan \in SecretUpdatePlans(secretState), decodeErr \in BOOLEAN, failAt \in 0..MaxLen :
        /\ failAt <= Len(plan.Secrets)
        /\ decodeErr => plan.Secrets = <<>>
        /\ \E r \in {SecretUpdateRun(plan, decodeErr, failAt, SecretRemote)} :
            /\ last' = Arisen(r.resp, decodeErr, FALSE)
            /\ secrets' = r.remote.store
            /\ secretState' = IF r.resp.wrote THEN r.resp.state ELSE secretState
            /\ phase' = IF r.resp.panicked THEN "crashed" ELSE phase
    /\ created' = <<>>
    /\ UNCHANGED <<providerData, heldClient, unit, projects, nextId, projectState, stateBackup,
                   deleted>>

SecretsToDelete_Reversed(state) ==
    [i \in 1..Len(state.Secrets) |->
        ValueString(state.Secrets[Len(state.Secrets) + 1 - i].SecretId)]

SecretsToDelete(state) ==
    [i \in 1..Len(state.Secrets) |-> ValueString(state.Secrets[i].SecretId)]

SecretDeleteResult(o) ==
    IF o.call.err # ""
        THEN [resp |-> Response("SecretDelete",
                                <<ClientErrorDiag("Error creating secret",
                                      "Could not delete secret, unexpected error: ", o.call.err)>>,
                                <<o.call>>, FALSE, Null),
              remote |-> o.remote]
        ELSE [resp |-> Response("SecretDelete", <<>>, <<o.call>>, FALSE, Null),
              remote |-> o.remote]

SecretDeleteRun(state, decodeErr, fail, remote) ==
    IF HasError(DecodeDiags(decodeErr))
        THEN Undecoded("SecretDelete", remote)
        ELSE SecretDeleteResult(BatchDelete(remote, "Secrets.Delete", SecretsToDelete(state), fail))

SecretDelete ==
    /\ Tick
    /\ heldClient # NoClient
    /\ unit = "secret"
    /\ phase = "configured"
    /\ secretState # Null
    /\ \E decodeErr \in BOOLEAN, fail \in BOOLEAN :
        /\ decodeErr => ~fail
        /\ \E r \in {SecretDeleteRun(secretState, decodeErr, fail, SecretRemote)} :
            /\ last' = Arisen(r.resp, decodeErr, FALSE)
            /\ secrets' = r.remote.store
            /\ secretState' = IF HasError(r.resp.diags) THEN secretState ELSE Null
            /\ stateBackup' = IF HasError(r.resp.diags) THEN stateBackup ELSE secretState
            /\ deleted' = IF HasError(r.resp.diags)
                            THEN deleted
                            ELSE deleted \cup TrackedIds(SecretIds(secretState))
    /\ created' = <<>>
    /\ UNCHANGED <<phase, providerData, heldClient, unit, projects, nextId, projectState>>

(***************************************************************************)
(* Data sources (data_bitwarden_project.go, src/unnamed/part_000).         *)
(***************************************************************************)
\* The ids a configuration may ask for: those on the server and one that is not.
ProjectIdPool == {ProjectIdOf(n) : n \in 1..(MaxIds + 1)}

SecretIdPool == {SecretIdOf(n) : n \in 1..(MaxIds + 1)}

\* request.Config.Get(ctx, &info): its diagnostics are dropped; a failed
\* decoding leaves info at its zero value.
ProjectInfo(ids, decodeErr) ==
    IF decodeErr
        THEN [Projects |-> <<>>, ID |-> StringNull]
        ELSE [Projects |-> [i \in 1..Len(ids) |->
                               [CreationDate |-> StringNull, Id |-> StringValue(ids[i]),
                                Name |-> StringNull, OrganizationId |-> StringNull,
                                RevisionDate |-> StringNull]],
              ID |-> StringNull]

ProjectModel(project) ==
    [CreationDate |-> StringValue(project.CreationDate),
     Name |-> StringValue(project.Name),
     Id |-> StringValue(project.ID),
     OrganizationId |-> StringValue(project.OrganizationID),
     RevisionDate |-> StringValue(project.RevisionDate)]

ProjectModels(resps) == [i \in 1..Len(resps) |-> ProjectModel(resps[i])]

\* The one diagnostic of a failed lookup: err is not part of it.
LookupFailedDiag_Verbatim(summary, err) ==
    Diag(summary, <<"Validate that the organization id is not empty and is valid.", err>>)

LookupFailedDiag(summary, err) ==
    Diag(summary, <<"Validate that the organization id is not empty and is valid.">>)

\* info.Projects = append(info.Projects, secretModel), once per lookup.
AppendModels(items, models) == items \o models

LookupFailed(op, summary, loop) ==
    [resp |-> Response(op, <<LookupFailedDiag(summary, loop.err)>>, loop.calls, FALSE, Null),
     remote |-> loop.remote]

ProjectDataReadResult(info, loop) ==
    IF loop.err # ""
        THEN LookupFailed("ProjectDataRead", "Unable to list projects under organization id",
                          loop)
        ELSE Completed("ProjectDataRead", <<>>, loop,
                       [info EXCEPT !.Projects = AppendModels(info.Projects, ProjectModels(loop.resps))])

ProjectDataReadRun(info, failAt, remote) ==
    ProjectDataReadResult(info, ForEach("ProjectDataRead", info.Projects, failAt, remote))

ProjectDataRead ==
    /\ Tick
    /\ heldClient # NoClient
    /\ unit = "projects_data"
    /\ phase = "configured"
    /\ \E ids \in SeqsUpTo(ProjectIdPool, MaxLen), decodeErr \in BOOLEAN, failAt \in 0..MaxLen :
        /\ failAt <= Len(ids)
        /\ decodeErr => failAt = 0
        /\ \E r \in {ProjectDataReadRun(ProjectInfo(ids, decodeErr), failAt, ProjectRemote)} :
            last' = [Arisen(r.resp, decodeErr, FALSE) EXCEPT
                        !.input = IF decodeErr THEN <<>> ELSE ids]
    /\ UNCHANGED <<phase, providerData, heldClient, unit, projects, secrets, nextId, projectState,
                   secretState, stateBackup, created, deleted>>

SecretInfo(ids, decodeErr) ==
    IF decodeErr
        THEN [Secrets |-> <<>>, ID |-> StringNull]
        ELSE [Secrets |-> [i \in 1..Len(ids) |->
                              [Id |-> StringValue(ids[i]), Key |-> StringNull,
                               Value |-> StringNull, Note |-> StringNull,
                               OrganizationId |-> StringNull, ProjectId |-> StringNull]],
              ID |-> StringNull]

SecretModel(secret) ==
    [Key |-> StringValue(secret.Key),
     Value |-> StringValue(secret.Value),
     Note |-> StringValue(secret.Note),
     ProjectId |-> StringValue(secret.ProjectID[1]),
     OrganizationId |-> StringValue(secret.OrganizationID),
     Id |-> StringValue(secret.ID)]

SecretModels(resps) == [i \in 1..Len(resps) |-> SecretModel(resps[i])]

SecretDataReadResult(info, loop) ==
    IF loop.err # ""
        THEN LookupFailed("SecretDataRead", "Unable to list secrets under organization id",
                          loop)
    ELSE IF loop.panicked
        THEN Panicked("SecretDataRead", loop)
    ELSE Completed("SecretDataRead", <<>>, loop,
                   [info EXCEPT !.Secrets = AppendModels(info.Secrets, SecretModels(loop.resps))])

SecretDataReadRun(info, failAt, remote) ==
    SecretDataReadResult(info, ForEach("SecretDataRead", info.Secrets, failAt, remote))

SecretDataRead ==
    /\ Tick
    /\ heldClient # NoClient
    /\ unit = "secrets_data"
    /\ phase = "configured"
    /\ \E ids \in SeqsUpTo(SecretIdPool, MaxLen), decodeErr \in BOOLEAN, failAt \in 0..MaxLen :
        /\ failAt <= Len(ids)
        /\ decodeErr => failAt = 0
        /\ \E r \in {SecretDataReadRun(SecretInfo(ids, decodeErr), failAt, SecretRemote)} :
            /\ last' = [Arisen(r.resp, decodeErr, FALSE) EXCEPT
                        !.input = IF decodeErr THEN <<>> ELSE ids]
            /\ phase' = IF r.resp.panicked THEN "crashed" ELSE phase
    /\ UNCHANGED <<providerData, heldClient, unit, projects, secrets, nextId, projectState,
                   secretState, stateBackup, created, deleted>>

(***************************************************************************)
(* Configure and ImportState of the resources and data sources.            *)
(***************************************************************************)
\* What Configure leaves in the client field: nothing new when the request
\* carries no provider data, else the provider's client.
ConfigureClient_Relogged(held, requestData) ==
    IF requestData = NoClient THEN held ELSE [requestData EXCEPT !.token = ""]

ConfigureClient(held, requestData) ==
    IF requestData = NoClient THEN held ELSE requestData

\* request.ProviderData: nil before the provider is configured, then what
\* provider Configure published.
ProviderDataInputs == {NoClient, providerData}

ConfigureUnit(op, u) ==
    /\ unit = u
    /\ phase = "configured"
    /\ \E requestData \in ProviderDataInputs :
        /\ heldClient' = ConfigureClient(heldClient, requestData)
        /\ last' = Response(op, <<>>, NoCall, FALSE, Null)
    /\ UNCHANGED <<phase, providerData, unit, projects, secrets, nextId, projectState,
                   secretState, stateBackup, created, deleted, ops>>

ProjectConfigure == ConfigureUnit("ProjectConfigure", "project")

SecretConfigure == ConfigureUnit("SecretConfigure", "secret")

ProjectDataConfigure == ConfigureUnit("ProjectDataConfigure", "projects_data")

SecretDataConfigure == ConfigureUnit("SecretDataConfigure", "secrets_data")

\* The id given to terraform import.
ImportIds == {"imported"}

\* resource.ImportStatePassthroughID(ctx, path.Root("id"), request, response):
\* the state is the id attribute and nothing else.
ProjectImported(id) == [Id |-> StringValue(id), Projects |-> <<>>]

SecretImported(id) == [Id |-> StringValue(id), Secrets |-> <<>>]

ProjectImportState ==
    /\ Tick
    /\ heldClient # NoClient
    /\ unit = "project"
    /\ phase = "configured"
    /\ projectState = Null
    /\ \E id \in ImportIds :
        /\ projectState' = ProjectImported(id)
        /\ last' = Response("ProjectImportState", <<>>, NoCall, TRUE, ProjectImported(id))
    /\ created' = <<>>
    /\ UNCHANGED <<phase, providerData, heldClient, unit, projects, secrets, nextId, secretState,
                   stateBackup, deleted>>

SecretImportState ==
    /\ Tick
    /\ heldClient # NoClient
    /\ unit = "secret"
    /\ phase = "configured"
    /\ secretState = Null
    /\ \E id \in ImportIds :
        /\ secretState' = SecretImported(id)
        /\ last' = Response("SecretImportState", <<>>, NoCall, TRUE, SecretImported(id))
    /\ created' = <<>>
    /\ UNCHANGED <<phase, providerData, heldClient, unit, projects, secrets, nextId, projectState,
                   stateBackup, deleted>>

\* The state once the provider has been configured: the resources and data
\* sources exist and hold no client yet.
Init ==
    /\ phase = "configured"
    /\ providerData = [nil |-> FALSE, apiUrl |-> "https://api.bitwarden.com/api",
                       identityUrl |-> "https://identity.bitwarden.com/connect/token/identity/connect/token",
                       constructed |-> TRUE, loggedIn |-> TRUE, token |-> "tok123"]
    /\ last = [op |-> "none"]
    /\ InitRemote

Next ==
    \/ ProjectCreate
    \/ ProjectRead
    \/ ProjectUpdate
    \/ ProjectDelete
    \/ SecretCreate
    \/ SecretRead
    \/ SecretUpdate
    \/ SecretDelete
    \/ ProjectDataRead
    \/ SecretDataRead
    \/ ProjectConfigure
    \/ SecretConfigure
    \/ ProjectDataConfigure
    \/ SecretDataConfigure
    \/ ProjectImportState
    \/ SecretImportState

Spec == Init /\ [][Next]_vars

(***************************************************************************)
(* Properties of provider Configure.                                       *)
(***************************************************************************)
ConfigureDone == last.op = "ProviderConfigure"

\* No attribute of the decoded configuration is unknown.
AllKnown(config) ==
    ~IsUnknown(config.ApiUrl) /\ ~IsUnknown(config.IdentityUrl) /\ ~IsUnknown(config.AccessToken)

\* Config-over-environment precedence with a default, as the documentation states it.
ByPrecedence(attr, envValue, default) ==
    IF ~IsNull(attr) THEN ValueString(attr)
    ELSE IF envValue # "" THEN envValue
    ELSE default

TokenByPrecedence(config, env) == ByPrecedence(config.AccessToken, env.BW_ACCESS_TOKEN, "")

NoCallFailed(calls) == \A i \in 1..Len(calls) : calls[i].err = ""

CallsTo(calls, fn) == {i \in 1..Len(calls) : calls[i].fn = fn}

ConfigErrorSummaries ==
    {"Unknown Bitwarden API url", "Unknown Bitwarden Identity url",
     "Unknown Bitwarden access token", "Missing Bitwarden access token"}

\* C1 (as stated): with all three attributes known, Configure ends without an
\* error diagnostic exactly when the resolved access token is non-empty.
C1_SucceedsIffTokenNonEmpty ==
    (ConfigureDone /\ ~last.decodeErr /\ AllKnown(last.config))
        => ((~HasError(last.diags) /\ ~last.panicked)
                <=> TokenByPrecedence(last.config, last.env) # "")

\* C1 (amended): with all three attributes known, Configure passes validation and
\* calls the client constructor exactly when the resolved access token is
\* non-empty, and it ends without an error diagnostic exactly when, in addition,
\* client construction and login both return no error.
C1_PassesValidationIffTokenNonEmpty ==
    (ConfigureDone /\ ~last.decodeErr /\ AllKnown(last.config))
        => /\ (CallsTo(last.calls, "NewBitwardenClient") # {})
                <=> TokenByPrecedence(last.config, last.env) # ""
           /\ (~HasError(last.diags) /\ ~last.panicked)
                <=> /\ TokenByPrecedence(last.config, last.env) # ""
                    /\ Len(last.calls) = 2
                    /\ NoCallFailed(last.calls)

\* A run that succeeds on a token taken from the environment.
C1_Witness ==
    /\ ConfigureDone /\ ~last.decodeErr /\ AllKnown(last.config)
    /\ IsNull(last.config.AccessToken)
    /\ last.env.BW_ACCESS_TOKEN # ""
    /\ ~HasError(last.diags)
    /\ phase = "configured"

\* C2: each of api_url, identity_url and access_token resolves to the config
\* value when the attribute is set, else to the environment variable, and only
\* when both are absent to the default endpoint (no default for the token).
C2_ConfigThenEnvThenDefault ==
    (ConfigureDone /\ last.resolved)
        => /\ last.apiUrl = ByPrecedence(last.config.ApiUrl, last.env.BW_API_URL,
                                         "https://api.bitwarden.com")
           /\ last.identityUrl = ByPrecedence(last.config.IdentityUrl, last.env.BW_IDENTITY_URL,
                                              "https://identity.bitwarden.com/connect/token")
           /\ last.accessToken = TokenByPrecedence(last.config, last.env)

\* C3: with api_url and identity_url unset and a non-empty access token, the
\* client is constructed for https://api.bitwarden.com/api and
\* https://identity.bitwarden.com/connect/token and login gets that token.
C3_DefaultEndpoints ==
    (/\ ConfigureDone /\ ~last.decodeErr
     /\ IsNull(last.config.ApiUrl) /\ IsNull(last.config.IdentityUrl)
     /\ ~IsUnknown(last.config.AccessToken)
     /\ TokenByPrecedence(last.config, last.env) # "")
        => /\ Len(last.calls) >= 1
           /\ last.calls[1].fn = "NewBitwardenClient"
           /\ last.calls[1].args = <<"https://api.bitwarden.com/api",
                                     "https://identity.bitwarden.com/connect/token">>
           /\ \E i \in CallsTo(last.calls, "AccessTokenLogin") :
                last.calls[i].args = <<TokenByPrecedence(last.config, last.env)>>

\* C9: Configure ends either with an authenticated client handed over and no
\* error diagnostic, or with an error diagnostic and no client handed over; and
\* login is never attempted after a failed construction.
C9_AuthenticatedClientOrError ==
    ConfigureDone
        => /\ \/ /\ providerData # NoClient
                 /\ providerData.constructed /\ providerData.loggedIn
                 /\ ~HasError(last.diags)
              \/ /\ HasError(last.diags)
                 /\ providerData = NoClient
           /\ (\E i \in CallsTo(last.calls, "NewBitwardenClient") : last.calls[i].err # "")
                => CallsTo(last.calls, "AccessTokenLogin") = {}

\* C10: whenever Configure reports a configuration error (an unknown attribute
\* or an empty resolved access token), it has called neither the client
\* constructor nor login.
C10_ConfigErrorsBeforeClientCalls ==
    (ConfigureDone /\ Summaries(last.diags) \cap ConfigErrorSummaries # {})
        => last.calls = NoCall

\* A run stopped by an empty access token, with known endpoints.
C10_Witness ==
    /\ ConfigureDone
    /\ "Missing Bitwarden access token" \in Summaries(last.diags)
    /\ ~IsNull(last.config.ApiUrl) /\ ValueString(last.config.ApiUrl) # ""
    /\ last.calls = NoCall
    /\ providerData = NoClient

(***************************************************************************)
(* Properties of the resources and the data sources.                       *)
(***************************************************************************)
\* The state Terraform holds for the block of the run.
TrackedState == IF unit = "project" THEN projectState ELSE secretState

ProjectKeeps(item, args) ==
    /\ ValueString(item.Name) = args[1]
    /\ ValueString(item.OrganizationId) = args[2]

SecretKeeps(item, args) ==
    /\ ValueString(item.Key) = args[1]
    /\ ValueString(item.Value) = args[2]
    /\ ValueString(item.Note) = args[3]
    /\ ValueString(item.OrganizationId) = args[4]
    /\ ValueString(item.ProjectId) = args[5]

\* C4: after a successful Create, and after any Read that follows it, the state
\* holds for every created project its name and for every created secret its
\* key, value, note, organization and project, as they were given to the
\* create call.
C4_CreateThenReadRoundTrip ==
    (created # <<>> /\ TrackedState # Null) =>
        IF unit = "project"
            THEN \A i \in 1..Len(created) : ProjectKeeps(projectState.Projects[i], created[i])
            ELSE \A i \in 1..Len(created) : SecretKeeps(secretState.Secrets[i], created[i])

ReadOps == {"ProjectRead", "SecretRead"}

LookedUp(calls) == {calls[i].args[1] : i \in 1..Len(calls)}

UpdateOps == {"ProjectUpdate", "SecretUpdate"}

Store == IF unit = "project" THEN projects ELSE secrets

ItemsOf(state) == IF unit = "project" THEN state.Projects ELSE state.Secrets

ItemId(item) == IF unit = "project" THEN item.ProjectId ELSE item.SecretId

\* The fields of a remote record that Update is not to touch.
Immutable(rec) ==
    IF unit = "project"
        THEN <<rec.organizationID, rec.creationDate, rec.revisionDate>>
        ELSE <<rec.organizationID>>

\* What a successful Update from (state, store) to (state2, store2) with the
\* given client calls must leave alone.
UpdateFrame(state, store, state2, store2, calls) ==
    /\ state2.Id = state.Id
    /\ Len(ItemsOf(state2)) <= Len(ItemsOf(state))
    /\ \A i \in 1..Len(ItemsOf(state2)) :
            ItemId(ItemsOf(state2)[i]) = ItemId(ItemsOf(state)[i])
    /\ DOMAIN store2 = DOMAIN store
    /\ \A id \in DOMAIN store :
            /\ Immutable(store2[id]) = Immutable(store[id])
            /\ id \notin LookedUp(calls) => store2[id] = store[id]

\* C6: a successful Update keeps the tracking id of the resource and the
\* server-assigned id of every item it saves, creates and removes no remote
\* record, leaves the immutable fields of every record as they were, and
\* changes no record other than those it was asked to update.
C6_UpdateKeepsIdsAndOtherRecords ==
    [][(last'.op \in UpdateOps /\ last'.wrote)
          => UpdateFrame(TrackedState, Store, TrackedState', Store', last'.calls)]_vars

\* A successful Update of one project while the server holds another.
C6_Witness ==
    /\ last.op = "ProjectUpdate"
    /\ last.wrote
    /\ last.calls # <<>>
    /\ DOMAIN projects \ LookedUp(last.calls) # {}

DataReadOps == {"ProjectDataRead", "SecretDataRead"}

\* The record a lookup of id yields.
LookupResult(id) ==
    IF unit = "projects_data"
        THEN ProjectModel(ProjectResponse(id, projects[id]))
        ELSE SecretModel(SecretResponse(id, secrets[id]))

Written(resp) == IF resp.op = "ProjectDataRead" THEN resp.state.Projects ELSE resp.state.Secrets

\* C7: a data-source Read whose lookups all succeed writes as many records as
\* ids were asked for, the i-th the lookup result of the i-th id.
C7_DataReadWritesNRecordsInOrder ==
    (last.op \in DataReadOps /\ last.wrote) =>
        /\ Len(Written(last)) = Len(last.input)
        /\ \A i \in 1..Len(last.input) : Written(last)[i] = LookupResult(last.input[i])

FailedCalls(calls) == {i \in 1..Len(calls) : calls[i].err # ""}

DetailCarries(diag, err) == \E k \in 1..Len(diag.detail) : diag.detail[k] = err

\* C8: a data-source Read with a failed lookup made that lookup last, wrote
\* nothing to state, and reports exactly one error diagnostic, whose text does
\* not include the error of the lookup.
C8_LookupFailureAbortsRead ==
    (last.op \in DataReadOps /\ FailedCalls(last.calls) # {}) =>
        /\ FailedCalls(last.calls) = {Len(last.calls)}
        /\ Len(last.calls) <= Len(last.input)
        /\ ~last.wrote
        /\ last.state = Null
        /\ Len(last.diags) = 1
        /\ HasError(last.diags)
        /\ ~DetailCarries(last.diags[1], last.calls[Len(last.calls)].err)

\* A lookup failed with ids still to look up.
C8_Witness ==
    /\ last.op \in DataReadOps
    /\ FailedCalls(last.calls) # {}
    /\ Len(last.calls) < Len(last.input)

LoopOps ==
    {"ProjectCreate", "ProjectRead", "ProjectUpdate", "SecretCreate", "SecretRead", "SecretUpdate"}

\* The error diagnostic of a failed client call: its text ends with the error.
ReportsError(diags, err) ==
    \E i \in 1..Len(diags) : diags[i].severity = "error" /\ DetailCarries(diags[i], err)

\* What a resource callback that met a failing client call leaves in last.
AbortedAtFirstError(resp) ==
    /\ FailedCalls(resp.calls) = {Len(resp.calls)}
    /\ ReportsError(resp.diags, resp.calls[Len(resp.calls)].err)
    /\ ~resp.wrote

\* C11: a resource Create, Read or Update in which a client call returned an
\* error made that call its last, reports the error as a diagnostic, and leaves
\* the Terraform state as it was before the callback.
C11_FirstErrorAbortsBatch ==
    [][(last'.op \in LoopOps /\ FailedCalls(last'.calls) # {})
          => (AbortedAtFirstError(last') /\ TrackedState' = TrackedState)]_vars

\* A Read whose first lookup failed with a second item still to look up.
C11_Witness ==
    /\ last.op \in ReadOps
    /\ FailedCalls(last.calls) = {1}
    /\ TrackedState # Null
    /\ Len(ItemsOf(TrackedState)) > 1

DeleteOps == {"ProjectDelete", "SecretDelete"}

\* The most client calls a callback may issue without repeating one: login
\* and construction once, a batch delete once, one call per item of the list.
CallBudget(resp) ==
    IF resp.op = "ProviderConfigure" THEN 2
    ELSE IF resp.op \in DeleteOps THEN 1
    ELSE IF resp.op \in DataReadOps THEN Len(resp.input)
    ELSE IF resp.wrote THEN Len(ItemsOf(resp.state))
    ELSE MaxLen

\* C12: in every callback no client call is repeated (the constructor and the
\* login are called at most once, no more calls than list items are issued)
\* and a client call that returned an error is the last call of the callback.
C12_NoCallAfterFirstError ==
    last.op # "none" =>
        /\ FailedCalls(last.calls) \subseteq {Len(last.calls)}
        /\ Len(last.calls) <= CallBudget(last)
        /\ last.op = "ProviderConfigure" =>
              /\ Cardinality(CallsTo(last.calls, "NewBitwardenClient")) <= 1
              /\ Cardinality(CallsTo(last.calls, "AccessTokenLogin")) <= 1

\* C13: every error met in a resource or data-source callback (decoding the
\* config, plan or state, generating the id, a client call) has an error
\* diagnostic in the response of that callback.
C13_EveryErrorReported ==
    last.op \notin {"none", "ProviderConfigure"} =>
        /\ "decode" \in last.arose => HasError(last.diags)
        /\ "uuid" \in last.arose => "Unable to generate resource id" \in Summaries(last.diags)
        /\ Len(last.diags) >= Cardinality(last.arose) + Cardinality(FailedCalls(last.calls))

ConfigureOps ==
    {"ProjectConfigure", "SecretConfigure", "ProjectDataConfigure", "SecretDataConfigure"}

\* C14: the client field of a resource or data source is changed by no step
\* but its own Configure, and whenever it holds a client that client is the
\* one provider Configure published.
C14_ClientSetOnlyByConfigure ==
    [][/\ heldClient' # heldClient => last'.op \in ConfigureOps
       /\ heldClient' \in {NoClient, providerData'}]_vars

\* A run of Create, Update and Delete on a configured resource.
C14_Witness ==
    /\ heldClient = providerData
    /\ heldClient # NoClient
    /\ last.op \in DeleteOps
    /\ ~HasError(last.diags)
    /\ ops = 3

CreateOps == {"ProjectCreate", "SecretCreate"}

\* C15 as stated: a Create whose id generation failed reports the error
\* diagnostic of it, has issued one create call per planned item and has
\* written to state the model with an empty tracking id.
C15_IdFailureStillCreatesAll ==
    (last.op \in CreateOps /\ "uuid" \in last.arose) =>
        /\ "Unable to generate resource id" \in Summaries(last.diags)
        /\ last.wrote
        /\ last.state.Id = StringValue("")
        /\ Len(last.calls) = Len(ItemsOf(last.state))

\* C15, amended: a Create whose id generation failed reports the error
\* diagnostic of it and still goes through the list: unless a create call
\* fails, it has issued one create call per planned item and has written to
\* state the model with an empty tracking id.
C15_IdFailureDoesNotHalt ==
    (last.op \in CreateOps /\ "uuid" \in last.arose) =>
        /\ "Unable to generate resource id" \in Summaries(last.diags)
        /\ FailedCalls(last.calls) = {} =>
              /\ last.wrote
              /\ last.state.Id = StringValue("")
              /\ Len(last.calls) = Len(ItemsOf(last.state))
              /\ TrackedState = last.state

\* Id generation failed and two planned items were created all the same.
C15_Witness ==
    /\ last.op \in CreateOps
    /\ "uuid" \in last.arose
    /\ last.wrote
    /\ Len(last.calls) = 2
    /\ FailedCalls(last.calls) = {}

SaaSIdentityHosts == {"https://identity.bitwarden.com", "https://identity.bitwarden.eu"}

\* The endpoints bitwarden.NewBitwardenClient was called with.
EndpointsUsed == last.calls[1].args

\* C16: the API URL the client is built with is the resolved API URL followed
\* by /api, whatever the resolved URL is; the identity URL it is built with is
\* the resolved one followed by /connect/token when that is one of the two
\* bare SaaS identity hosts, and by /identity/connect/token otherwise.
C16_EndpointNormalization ==
    (ConfigureDone /\ last.calls # NoCall) =>
        /\ EndpointsUsed[1] = last.apiUrl \o "/api"
        /\ EndpointsUsed[2] = IF last.identityUrl \in SaaSIdentityHosts
                                THEN last.identityUrl \o "/connect/token"
                                ELSE last.identityUrl \o "/identity/connect/token"

\* A SaaS API host and a bare SaaS identity host went through normalization.
C16_Witness ==
    /\ ConfigureDone
    /\ last.calls # NoCall
    /\ last.apiUrl = "https://api.bitwarden.eu"
    /\ last.identityUrl = "https://identity.bitwarden.eu"

\* The ids a state tracks, in state order.
IdsOf(state) == [i \in 1..Len(ItemsOf(state)) |-> ValueString(ItemId(ItemsOf(state)[i]))]

\* The state a Delete was given: the one a successful Delete has put aside,
\* the one still held after a failed Delete.
StateGiven == IF HasError(last.diags) THEN TrackedState ELSE stateBackup

OneBatchDelete(resp, state) ==
    /\ Len(resp.calls) = 1
    /\ resp.calls[1].fn = (IF resp.op = "ProjectDelete" THEN "Projects.Delete" ELSE "Secrets.Delete")
    /\ resp.calls[1].args = IdsOf(state)
    /\ resp.calls[1].err # "" => ReportsError(resp.diags, resp.calls[1].err)

\* C17 as stated: every Delete issues exactly one client call, a batch delete
\* of the ids its state tracks, in state order, and reports its failure.
C17_OneBatchDeletePerCallback ==
    last.op \in DeleteOps => OneBatchDelete(last, StateGiven)

\* C17, amended: a Delete that decoded its state issues exactly one client
\* call, a batch delete of the ids the state tracks, in state order, and
\* reports its failure; a Delete that could not decode its state issues none.
C17_OneBatchDeleteOnceDecoded ==
    last.op \in DeleteOps =>
        IF "decode" \in last.arose
            THEN last.calls = NoCall /\ HasError(last.diags)
            ELSE OneBatchDelete(last, StateGiven)

\* A batch delete of two tracked ids.
C17_Witness ==
    /\ last.op \in DeleteOps
    /\ last.calls # NoCall
    /\ Len(last.calls[1].args) = 2
    /\ last.calls[1].err = ""

\* C18: a secret data-source Read or secret resource Update whose client
\* calls all succeeded did not crash: it wrote state or reported a diagnostic.
C18_NoCrashOnAbsentProject ==
    (last.op \in {"SecretDataRead", "SecretUpdate"} /\ FailedCalls(last.calls) = {}) =>
        /\ ~last.panicked
        /\ last.wrote \/ HasError(last.diags)

\* The ids of the records the Create in last made the server create.
CreatedBy(resp) ==
    {(IF resp.op = "ProjectCreate" THEN ProjectIdOf(n) ELSE SecretIdOf(n)) :
        n \in (nextId - Cardinality(DOMAIN resp.calls \ FailedCalls(resp.calls)))..(nextId - 1)}

\* C19: the ids of all records a Create made the server create are tracked by
\* the state that Create wrote.
C19_CreatedRecordsTracked ==
    last.op \in CreateOps =>
        CreatedBy(last) \subseteq (IF last.wrote THEN TrackedIds(IdsOf(last.state)) ELSE {})

====
